---- MODULE Spec2Model ----
(***************************************************************************)
(* Model of the dbx query session (src/db.go): the history store, the      *)
(* per-query fetch goroutines, the connection monitor, the result model    *)
(* with its sort handler, and the focus ring, as driven by the tview       *)
(* event loop.                                                             *)
(*                                                                         *)
(* Texts are sequences of one-character strings, so that trimming and      *)
(* byte-wise comparison are computed rather than assumed.                  *)
(***************************************************************************)
EXTENDS Integers, Sequences, FiniteSets, TLC

(***************************************************************************)
(* Bounds of the model.                                                    *)
(***************************************************************************)
\* cfg.MaxHistoryEntries as read from the configuration file (default 200).
MaxHistoryEntries == 3
\* Query submissions explored by SpecHistory.
MaxHistoryRuns == 2
\* Query submissions explored by SpecSession.
MaxRuns == 2
\* Connection-monitor updates that may wait in the update channel.
MaxMonitorPending == 2
\* Health probes explored by SpecTasks.
MaxTicks == 2
\* Query submissions explored by SpecSort.
MaxSortRuns == 1
\* Query submissions explored by SpecRender.
MaxRenderRuns == 1
\* Query submissions explored by SpecFocus.
MaxFocusRuns == 1
\* Query submissions and exports explored by SpecExport.
MaxExportRuns == 1
MaxExports == 2
\* Query submissions explored by SpecPersist.
MaxPersistRuns == 2
\* Query submissions explored by SpecSaveFail.
MaxSaveFailRuns == 2
\* Query submissions explored by SpecDetail.
MaxDetailRuns == 1
\* Query submissions explored by SpecKeys, and the largest key repeat count
\* followed there.
MaxKeyRuns == 1
MaxKeyRepeat == 4
\* Query submissions explored by SpecLive.
MaxLiveRuns == 2
\* Query submissions and exports explored by SpecInterval.
MaxIntervalRuns == 2
MaxIntervalExports == 1
MaxSubmitRuns == 2
\* Query submissions explored by SpecShapes.
MaxShapeRuns == 2

\* refreshHistoryList stops after the item with index 100.
HistoryListCap == 100

(***************************************************************************)
(* Texts.                                                                  *)
(***************************************************************************)
\* unicode.IsSpace on the characters the model uses.
IsSpace(c) == c \in {" ", "\n", "\t"}

RECURSIVE TrimLeft(_)
TrimLeft(s) ==
    IF s # <<>> /\ IsSpace(Head(s)) THEN TrimLeft(Tail(s)) ELSE s

RECURSIVE TrimRight(_)
TrimRight(s) ==
    IF s # <<>> /\ IsSpace(s[Len(s)]) THEN TrimRight(SubSeq(s, 1, Len(s) - 1)) ELSE s

\* strings.TrimSpace
TrimSpace(s) == TrimRight(TrimLeft(s))

\* Byte value of the characters the model uses (Go compares strings bytewise).
Ord(c) ==
    CASE c = "\t" -> 9  [] c = "\n" -> 10 [] c = " " -> 32
      [] c = "0" -> 48  [] c = "1" -> 49  [] c = "2" -> 50 [] c = "3" -> 51
      [] c = "4" -> 52  [] c = "5" -> 53  [] c = "6" -> 54 [] c = "7" -> 55
      [] c = "8" -> 56  [] c = "9" -> 57
      [] c = "<" -> 60  [] c = ">" -> 62
      [] c = "a" -> 97  [] c = "b" -> 98  [] c = "d" -> 100
      [] c = "e" -> 101 [] c = "i" -> 105 [] c = "l" -> 108
      [] c = "m" -> 109 [] c = "n" -> 110 [] c = "x" -> 120

\* Go's s < t on strings.
RECURSIVE StrLess(_, _)
StrLess(s, t) ==
    IF t = <<>> THEN FALSE
    ELSE IF s = <<>> THEN TRUE
    ELSE IF Ord(Head(s)) # Ord(Head(t)) THEN Ord(Head(s)) < Ord(Head(t))
    ELSE StrLess(Tail(s), Tail(t))

Min(a, b) == IF a < b THEN a ELSE b

\* Decimal digits of a natural number.
DigitChar(d) == <<"0", "1", "2", "3", "4", "5", "6", "7", "8", "9">>[d + 1]
RECURSIVE Digits(_)
Digits(n) == IF n < 10 THEN <<DigitChar(n)>> ELSE Digits(n \div 10) \o <<DigitChar(n % 10)>>

(***************************************************************************)
(* History store.                                                          *)
(***************************************************************************)
\* HistoryEntry{Query, Timestamp}
HistoryEntry(q, t) == [Query |-> q, Timestamp |-> t]

\* json.Marshal of a string: the escape sequence of one character (HTML
\* characters are escaped as \u00XX), and the quoted literal.
EscapeCharVerbatim(c) == <<c>>

EscapeChar(c) ==
    CASE c = "\"" -> <<"\\", "\"">>
      [] c = "\\" -> <<"\\", "\\">>
      [] c = "\n" -> <<"\\", "n">>
      [] c = "\t" -> <<"\\", "t">>
      [] c = "<" -> <<"\\", "u", "0", "0", "3", "c">>
      [] c = ">" -> <<"\\", "u", "0", "0", "3", "e">>
      [] OTHER -> <<c>>

RECURSIVE EscapeText(_)
EscapeText(s) == IF s = <<>> THEN <<>> ELSE EscapeChar(Head(s)) \o EscapeText(Tail(s))

MarshalString(s) == <<"\"">> \o EscapeText(s) \o <<"\"">>

\* json.Unmarshal of a string literal: whether the text between the quotes
\* is well formed, and the string it denotes.
UnicodeEscapes == {<<"0", "0", "3", "c">>, <<"0", "0", "3", "e">>}
UnicodeChar(h) == IF h = <<"0", "0", "3", "c">> THEN "<" ELSE ">"

RECURSIVE BodyOk(_)
BodyOk(b) ==
    IF b = <<>> THEN TRUE
    ELSE IF Head(b) = "\"" \/ Head(b) = "\n" \/ Head(b) = "\t" THEN FALSE
    ELSE IF Head(b) # "\\" THEN BodyOk(Tail(b))
    ELSE IF Len(b) < 2 THEN FALSE
    ELSE IF b[2] \in {"\"", "\\", "n", "t"} THEN BodyOk(SubSeq(b, 3, Len(b)))
    ELSE /\ b[2] = "u" /\ Len(b) >= 6
         /\ SubSeq(b, 3, 6) \in UnicodeEscapes
         /\ BodyOk(SubSeq(b, 7, Len(b)))

RECURSIVE UnescapeBody(_)
UnescapeBody(b) ==
    IF b = <<>> THEN <<>>
    ELSE IF Head(b) # "\\" THEN <<Head(b)>> \o UnescapeBody(Tail(b))
    ELSE IF b[2] = "n" THEN <<"\n">> \o UnescapeBody(SubSeq(b, 3, Len(b)))
    ELSE IF b[2] = "t" THEN <<"\t">> \o UnescapeBody(SubSeq(b, 3, Len(b)))
    ELSE IF b[2] = "u" THEN <<UnicodeChar(SubSeq(b, 3, 6))>> \o UnescapeBody(SubSeq(b, 7, Len(b)))
    ELSE <<b[2]>> \o UnescapeBody(SubSeq(b, 3, Len(b)))

StringLiteralOk(lit) ==
    /\ Len(lit) >= 2 /\ Head(lit) = "\"" /\ lit[Len(lit)] = "\""
    /\ BodyOk(SubSeq(lit, 2, Len(lit) - 1))

UnmarshalString(lit) == UnescapeBody(SubSeq(lit, 2, Len(lit) - 1))

\* time.Time as JSON text and back (times are the model's logical times).
MarshalTime(t) == Digits(t)
DigitValue(c) == CHOOSE d \in 0..9 : DigitChar(d) = c
RECURSIVE UnmarshalTime(_)
UnmarshalTime(s) ==
    IF Len(s) = 1 THEN DigitValue(s[1])
    ELSE 10 * UnmarshalTime(SubSeq(s, 1, Len(s) - 1)) + DigitValue(s[Len(s)])

\* The history file: absent, unreadable, unparsable, or the JSON document
\* json.MarshalIndent writes for a History: per entry the query literal and
\* the timestamp text.
FileMissing == [kind |-> "missing"]
FileUnreadable == [kind |-> "unreadable"]
FileCorrupt == [kind |-> "corrupt"]
FileJSON(entries) ==
    [kind |-> "json",
     entries |-> [i \in 1..Len(entries) |->
                    [query |-> MarshalString(entries[i].Query),
                     timestamp |-> MarshalTime(entries[i].Timestamp)]]]

\* loadHistory: whether it returns an error (the file exists and cannot be
\* read), and the entries it returns otherwise; a missing file and a file
\* json.Unmarshal rejects give none.
loadHistoryFails(f) == f.kind = "unreadable"

loadHistoryCorruptKeepsEntry(f) ==
    IF f.kind = "json" /\ \A i \in 1..Len(f.entries) : StringLiteralOk(f.entries[i].query)
    THEN [i \in 1..Len(f.entries) |->
            HistoryEntry(UnmarshalString(f.entries[i].query),
                         UnmarshalTime(f.entries[i].timestamp))]
    ELSE <<HistoryEntry(<<"a">>, 0)>>

loadHistory(f) ==
    IF f.kind = "json" /\ \A i \in 1..Len(f.entries) : StringLiteralOk(f.entries[i].query)
    THEN [i \in 1..Len(f.entries) |->
            HistoryEntry(UnmarshalString(f.entries[i].query),
                         UnmarshalTime(f.entries[i].timestamp))]
    ELSE <<>>

\* main: the history the session starts with (empty when loadHistory failed).
StartHistory(f) == IF loadHistoryFails(f) THEN <<>> ELSE loadHistory(f)

\* appendHistory(h, query, maxLen), called at time t.
appendHistoryDropsNewest(h, query, maxLen, t) ==
    LET q == TrimSpace(query) IN
    IF q = <<>> THEN h
    ELSE IF Len(h) > 0 /\ h[1].Query = q
         THEN [h EXCEPT ![1].Timestamp = t]
         ELSE LET n == <<HistoryEntry(q, t)>> \o h IN
              IF Len(n) > maxLen THEN SubSeq(n, 2, maxLen + 1) ELSE n

appendHistoryUntrimmed(h, query, maxLen, t) ==
    IF TrimSpace(query) = <<>> THEN h
    ELSE IF Len(h) > 0 /\ h[1].Query = query
         THEN [h EXCEPT ![1].Timestamp = t]
         ELSE LET n == <<HistoryEntry(query, t)>> \o h IN
              IF Len(n) > maxLen THEN SubSeq(n, 1, maxLen) ELSE n

appendHistory(h, query, maxLen, t) ==
    LET q == TrimSpace(query) IN
    IF q = <<>> THEN h
    ELSE IF Len(h) > 0 /\ h[1].Query = q
         THEN [h EXCEPT ![1].Timestamp = t]
         ELSE LET n == <<HistoryEntry(q, t)>> \o h IN
              IF Len(n) > maxLen THEN SubSeq(n, 1, maxLen) ELSE n

\* hist.Entries = append(hist.Entries[:i], hist.Entries[i+1:]...), i zero-based.
RemoveAtNext(h, i) == SubSeq(h, 1, i + 1) \o SubSeq(h, i + 3, Len(h))

RemoveAt(h, i) == SubSeq(h, 1, i) \o SubSeq(h, i + 2, Len(h))

\* Number of items refreshHistoryList puts in the list widget.
ListItemsFor(h) == Min(Len(h), HistoryListCap + 1)

(***************************************************************************)
(* Rows, responses and the result model.                                   *)
(***************************************************************************)
\* A row is a function from its keys to JSON values; keys are named by
\* TLA+ strings and spelled out by KeyText where their bytes matter. A value
\* is what json.Unmarshal leaves in an interface{}: a string, or a float64
\* for a JSON number (here a natural number below 100).
JStr(s) == [t |-> "string", s |-> s]
JNum(n) == [t |-> "number", n |-> n]

\* fmt.Sprintf("%v", v) for a value: a string prints as itself, a float64
\* that is a small natural number prints as its decimal digits.
Sprint(v) == IF v.t = "number" THEN Digits(v.n) ELSE v.s

KeyText(k) ==
    CASE k = "id" -> <<"i", "d">>
      [] k = "name" -> <<"n", "a", "m", "e">>
      [] k = "x" -> <<"x">>
      [] k = "mail" -> <<"m", "a", "i", "l">>
      [] k = "email" -> <<"e", "m", "a", "i", "l">>

\* fmt.Sprintf("%v", row[k]): an absent key is the nil interface and prints
\* as <nil>.
NilText == <<"<", "n", "i", "l", ">">>
Cell(row, k) == IF k \in DOMAIN row THEN Sprint(row[k]) ELSE NilText

\* All orderings of a finite set as sequences.
Orderings(S) ==
    {f \in [1..Cardinality(S) -> S] : \A i, j \in 1..Cardinality(S) : i # j => f[i] # f[j]}

\* sort.Strings over the keys of a row: ascending by bytes.
SortedKeys(row) ==
    CHOOSE f \in Orderings(DOMAIN row) :
        \A i, j \in 1..Len(f) : i < j => StrLess(KeyText(f[i]), KeyText(f[j]))

\* DefaultConfig(): the fields the model uses. A configuration file gives
\* every field it does not mention the value 0.
DefaultConfig ==
    [ScrollAcceleration |-> 3, ScrollRepeatThreshold |-> 3, PageScrollStep |-> 10,
     MaxColumnWidth |-> 40]

\* The table widget: header cells, the maximum width given to the cells of
\* each column, and the texts of the cells under the header.
EmptyTable == [header |-> <<>>, widths |-> <<>>, cells |-> <<>>]
\* Table.GetRowCount
RowCount(t) == IF t.header = <<>> THEN 0 ELSE 1 + Len(t.cells)

Max(a, b) == IF a > b THEN a ELSE b

\* The rune appended by truncateString.
Ellipsis == "ellipsis"

\* truncateString(s, maxLen); s[:maxLen-1] panics when maxLen - 1 < 0.
truncateStringPanics(s, maxLen) == Len(s) > maxLen /\ maxLen - 1 < 0
truncateString(s, maxLen) ==
    IF Len(s) <= maxLen THEN s ELSE SubSeq(s, 1, maxLen - 1) \o <<Ellipsis>>

\* renderJSONToTable, the width of column k: the header's length, at least
\* minColWidth, widened to the longest value among the first rows, cut at
\* maxColWidth.
minColWidth == 8
WidthSampleRows == 5
RECURSIVE WidestValue(_, _, _, _)
WidestValue(data, k, i, width) ==
    IF i > Len(data) \/ i > WidthSampleRows THEN width
    ELSE WidestValue(data, k, i + 1, Max(width, Len(Cell(data[i], k))))

ColumnWidth(data, k, maxColWidth) ==
    LET width == WidestValue(data, k, 1, Max(Len(KeyText(k)), minColWidth))
    IN  IF width > maxColWidth THEN maxColWidth ELSE width

\* renderJSONToTable, the text of the cell of row under column k.
RenderCell(data, row, k, maxColWidth) ==
    LET s == Cell(row, k)
        w == ColumnWidth(data, k, maxColWidth)
    IN  IF Len(s) > w THEN truncateString(s, w) ELSE s

\* renderJSONToTable panics when truncateString does for one of its cells.
RenderPanics(data, maxColWidth) ==
    /\ Len(data) > 0
    /\ \E r \in 1..Len(data) : \E k \in DOMAIN data[1] :
          /\ Len(Cell(data[r], k)) > ColumnWidth(data, k, maxColWidth)
          /\ truncateStringPanics(Cell(data[r], k), ColumnWidth(data, k, maxColWidth))

\* renderJSONToTable: the table it leaves; and the column list it leaves in
\* *columns (untouched when data is empty).
renderJSONToTable(data, maxColWidth) ==
    IF Len(data) = 0 THEN EmptyTable
    ELSE LET cols == SortedKeys(data[1]) IN
         [header |-> cols,
          widths |-> [c \in 1..Len(cols) |-> ColumnWidth(data, cols[c], maxColWidth)],
          cells |-> [r \in 1..Len(data) |->
                       [c \in 1..Len(cols) |-> RenderCell(data, data[r], cols[c], maxColWidth)]]]

renderColumnsAllRows(data, columns) ==
    IF Len(data) = 0 THEN columns
    ELSE CHOOSE f \in Orderings(UNION {DOMAIN data[i] : i \in 1..Len(data)}) :
             \A i, j \in 1..Len(f) : i < j => StrLess(KeyText(f[i]), KeyText(f[j]))

renderColumns(data, columns) ==
    IF Len(data) = 0 THEN columns ELSE SortedKeys(data[1])

\* The less function handed to sort.Slice by the header handler.
SortLessNumeric(a, b, colName, ascending) ==
    LET num(r) == colName \in DOMAIN r /\ r[colName].t = "number"
        lt(x, y) == IF num(x) /\ num(y) THEN x[colName].n < y[colName].n
                    ELSE StrLess(Cell(x, colName), Cell(y, colName))
    IN  IF ascending THEN lt(a, b) ELSE lt(b, a)

SortLess(a, b, colName, ascending) ==
    IF ascending THEN StrLess(Cell(a, colName), Cell(b, colName))
    ELSE StrLess(Cell(b, colName), Cell(a, colName))

\* Permutations of a sequence.
SeqPermutations(s) ==
    {[i \in 1..Len(s) |-> s[p[i]]] : p \in Orderings(1..Len(s))}

\* sort.Slice is not stable: any permutation ordered by less may result.
SortOutcomes(data, colName, ascending) ==
    {p \in SeqPermutations(data) :
        \A i, j \in 1..Len(p) : i < j => ~SortLess(p[j], p[i], colName, ascending)}

\* The toggle of the header handler: <<sortColumn', sortAscending'>>.
SortToggleAlwaysAscending(sc, sa, col) == <<col, TRUE>>

SortToggle(sc, sa, col) ==
    IF sc = col THEN <<sc, ~sa>> ELSE <<col, TRUE>>

\* updateDetailView for table selection row sel over data.
DetailMax == 200
Truncate200(s) == IF Len(s) > DetailMax THEN SubSeq(s, 1, DetailMax) \o <<Ellipsis>> ELSE s
updateDetailViewFirstRowKeys(sel, data) ==
    IF sel <= 0 \/ sel > Len(data) THEN [kind |-> "No row selected"]
    ELSE LET keys == SortedKeys(data[1]) IN
         [kind |-> "row", row |-> sel, total |-> Len(data),
          lines |-> [i \in 1..Len(keys) |-> <<keys[i], Truncate200(Cell(data[sel], keys[i]))>>]]

updateDetailView(sel, data) ==
    IF sel <= 0 \/ sel > Len(data) THEN [kind |-> "No row selected"]
    ELSE LET keys == SortedKeys(data[sel]) IN
         [kind |-> "row", row |-> sel, total |-> Len(data),
          lines |-> [i \in 1..Len(keys) |-> <<keys[i], Truncate200(Cell(data[sel], keys[i]))>>]]

(***************************************************************************)
(* The endpoint and fetchQuery.                                            *)
(***************************************************************************)
\* What the endpoint may do with a request: fail in transport, or answer
\* with a body that is not JSON, the JSON null, another JSON value that is
\* no array, or a JSON array whose items are objects (rows), nulls, or other
\* values (scalars, nested arrays).
TransportError == [err |-> TRUE]
TextBody == [err |-> FALSE, json |-> "none"]
OtherJSON == [err |-> FALSE, json |-> "value"]
NullBody == [err |-> FALSE, json |-> "null"]
ArrayBody(items) == [err |-> FALSE, json |-> "array", items |-> items]
Obj(row) == [obj |-> TRUE, null |-> FALSE, row |-> row]
Scalar == [obj |-> FALSE, null |-> FALSE]
Null == [obj |-> FALSE, null |-> TRUE]

\* A nil map[string]interface{}: no keys.
EmptyRow == [k \in {} |-> JNum(0)]

\* json.Unmarshal(b, &arr) with arr []map[string]interface{}: it succeeds
\* for null (arr stays nil) and for an array whose elements are objects or
\* nulls (a null element leaves a nil map in the slice).
UnmarshalMapsOk(resp) ==
    \/ resp.json = "null"
    \/ /\ resp.json = "array"
       /\ \A i \in 1..Len(resp.items) : resp.items[i].obj \/ resp.items[i].null

UnmarshalMaps(resp) ==
    IF resp.json = "null" THEN <<>>
    ELSE [i \in 1..Len(resp.items) |->
             IF resp.items[i].obj THEN resp.items[i].row ELSE EmptyRow]

\* fetchQuery: error, kind, and the dynamic type and content of the result.
fetchQueryGenericFirst(resp) ==
    IF resp.err THEN [err |-> TRUE]
    ELSE IF resp.json = "array"
         THEN [err |-> FALSE, kind |-> "json", type |-> "slice",
               items |-> resp.items, raw |-> resp]
    ELSE IF resp.json \in {"value", "null"}
         THEN [err |-> FALSE, kind |-> "json", type |-> "other", raw |-> resp]
    ELSE [err |-> FALSE, kind |-> "text", type |-> "string", text |-> resp, raw |-> resp]

fetchQuery(resp) ==
    IF resp.err THEN [err |-> TRUE]
    ELSE IF UnmarshalMapsOk(resp)
         THEN [err |-> FALSE, kind |-> "json", type |-> "maps",
               rows |-> UnmarshalMaps(resp), raw |-> resp]
    ELSE IF resp.json = "array"
         THEN [err |-> FALSE, kind |-> "json", type |-> "slice",
               items |-> resp.items, raw |-> resp]
    ELSE IF resp.json = "value"
         THEN [err |-> FALSE, kind |-> "json", type |-> "other", raw |-> resp]
    ELSE [err |-> FALSE, kind |-> "text", type |-> "string", text |-> resp, raw |-> resp]

\* The object elements of a []interface{}, in order.
RECURSIVE ObjectRows(_)
ObjectRows(items) ==
    IF items = <<>> THEN <<>>
    ELSE IF Head(items).obj THEN <<Head(items).row>> \o ObjectRows(Tail(items))
    ELSE ObjectRows(Tail(items))

\* The rows the queued update of runQuery installs for a successful result.
ProjectRows(res) ==
    IF res.kind = "json" /\ res.type = "maps" THEN res.rows
    ELSE IF res.kind = "json" /\ res.type = "slice" THEN ObjectRows(res.items)
    ELSE <<>>

(***************************************************************************)
(* Inputs explored.                                                        *)
(***************************************************************************)
\* Texts the operator types into the editor.
EditorTexts == {<<"a">>, <<" ", "b">>}

Row21 == [id |-> JNum(2), name |-> JStr(<<"a">>)]
Row12 == [id |-> JNum(1), name |-> JStr(<<"b">>)]
Row9 == [id |-> JNum(9), name |-> JStr(<<"a">>)]
RowId9 == [id |-> JNum(9), name |-> JStr(<<"b">>)]
RowId10 == [id |-> JNum(10), name |-> JStr(<<"a">>)]
RowNoId == [name |-> JStr(<<"d">>)]
\* What the endpoint answers.
Responses ==
    {TransportError, TextBody,
     ArrayBody(<<Obj(Row21), Obj(Row12)>>),
     ArrayBody(<<Obj(Row9)>>)}

\* Results of a health probe: transport failure, or an HTTP status.
ProbeFailed == [err |-> TRUE]
ProbeStatus(code) == [err |-> FALSE, code |-> code]
ProbeOutcomes == {ProbeFailed, ProbeStatus(200), ProbeStatus(499), ProbeStatus(500)}

Panes == {"Editor", "History", "Results", "Detail", "Raw"}
\* The other views of the layout: the history preview, the connection box
\* and the status line.
OtherViews == {"Preview", "Connection", "Status"}

\* History files an earlier session (possibly run with a larger
\* max_history_entries) may have left: none, an unparsable one, alternating
\* queries a, b, a, ... of every length up to one more than the maximum, and
\* one with the same query twice in a row. Their timestamps precede this
\* session.
Alternating(n) == [i \in 1..n |-> HistoryEntry(IF i % 2 = 1 THEN <<"a">> ELSE <<"b">>, 0)]
InitialFiles ==
    {FileMissing, FileCorrupt} \cup
    {FileJSON(Alternating(n)) : n \in 0..(MaxHistoryEntries + 1)} \cup
    {FileJSON(<<HistoryEntry(<<"a">>, 0), HistoryEntry(<<"a">>, 0)>>)}

(***************************************************************************)
(* State.                                                                  *)
(***************************************************************************)
VARIABLES
    hist,            \* hist.Entries
    file,            \* content of history.json
    loaded,          \* what loadHistory returned at startup (history variable)
    cfg,             \* the configuration loadConfig returned
    ticks,           \* health probes the connection checker has made
    exports,         \* the export files written, oldest first
    lastKey,         \* lastKey of the results table's key handler
    keyRepeatCount,  \* keyRepeatCount of the results table's key handler
    listCount,       \* historyList: number of items; item i activates entry i
    listCur,         \* historyList.GetCurrentItem()
    editorText,      \* editor.GetText()
    focus,           \* app.GetFocus()
    clock,           \* submissions so far; the n-th happens at time n
    status,          \* status line
    crashed,         \* the process has panicked
    fetches,         \* fetch goroutines inside fetchQuery
    queue,           \* updates waiting in the application's update channel
    completed,       \* the fetches that returned, with the endpoint's answer and
                     \* fetchQuery's result, in order of return (history variable)
    appended,        \* queries given to appendHistory by AppendStep (history variable)
    currentData, currentColumns, currentRowCount, sortColumn, sortAscending,
    endpointData,    \* the rows of currentData as the endpoint sent them (history variable)
    table,           \* resultsTable content
    selRow, selCol,  \* resultsTable.GetSelection()
    detail,          \* detailView text
    rawView,         \* rawView text
    connStatus       \* connectionStatus text

histVars == <<hist, file, loaded, listCount, listCur>>
resultVars == <<currentData, currentColumns, currentRowCount, sortColumn, sortAscending,
                endpointData, table, selRow, selCol, detail, rawView>>
\* Everything the event loop owns.
sessionVars == <<hist, file, listCount, listCur, editorText, focus, status, crashed,
                 lastKey, keyRepeatCount,
                 currentData, currentColumns, currentRowCount, sortColumn, sortAscending,
                 table, selRow, selCol, detail, rawView, connStatus>>
vars == <<hist, file, loaded, cfg, lastKey, keyRepeatCount, ticks, exports, listCount, listCur, editorText, focus, clock, status, crashed,
          fetches, queue, completed, appended, currentData, currentColumns,
          currentRowCount,
          sortColumn, sortAscending, endpointData, table, selRow, selCol, detail, rawView,
          connStatus>>

\* main up to app.Run, for the history file f found at startup and the
\* configuration c returned by loadConfig.
InitWithConfig(f, c) ==
    /\ cfg = c
    /\ ticks = 0
    /\ exports = <<>>
    /\ lastKey = "none"
    /\ keyRepeatCount = 0
    /\ file = f
    /\ hist = StartHistory(f)
    /\ loaded = StartHistory(f)
    /\ listCount = ListItemsFor(StartHistory(f))
    /\ listCur = 0
    /\ editorText = <<>>
    /\ focus = "Editor"
    /\ clock = 0
    /\ status = "help"
    /\ crashed = FALSE
    /\ fetches = {}
    /\ queue = <<>>
    /\ completed = <<>>
    /\ appended = <<>>
    /\ currentData = <<>>
    /\ currentColumns = <<>>
    /\ currentRowCount = 0
    /\ sortColumn = -1
    /\ sortAscending = TRUE
    /\ endpointData = <<>>
    /\ table = EmptyTable
    /\ selRow = 0
    /\ selCol = 0
    /\ detail = [kind |-> "empty"]
    /\ rawView = [kind |-> "empty"]
    /\ connStatus = "Checking"

\* The same with the default configuration (no configuration file).
InitWith(f) == InitWithConfig(f, DefaultConfig)

(***************************************************************************)
(* Event-loop handlers.                                                    *)
(***************************************************************************)
\* saveHistory(h) with the file holding f: it writes the whole document, or
\* fails (directory or file cannot be written) and reports the error.
saveHistory(h, f) ==
    {[ok |-> TRUE, file |-> FileJSON(h)], [ok |-> FALSE, file |-> f]}

\* The operator edits the text of the editor.
Type(t) ==
    /\ ~crashed
    /\ focus = "Editor"
    /\ editorText # t
    /\ editorText' = t
    /\ UNCHANGED <<hist, file, loaded, cfg, lastKey, keyRepeatCount, ticks, exports, listCount, listCur, focus, clock, status, crashed,
                   fetches, queue, completed, appended, connStatus>>
    /\ UNCHANGED resultVars

\* app.SetInputCapture, Tab: the next pane of the ring.
NextPaneSkipsDetail(p) ==
    CASE p = "Editor" -> "History"
      [] p = "History" -> "Results"
      [] p = "Results" -> "Raw"
      [] OTHER -> "Editor"

NextPane(p) ==
    CASE p = "Editor" -> "History"
      [] p = "History" -> "Results"
      [] p = "Results" -> "Detail"
      [] p = "Detail" -> "Raw"
      [] OTHER -> "Editor"

Tab ==
    /\ ~crashed
    /\ focus' = NextPane(focus)
    /\ UNCHANGED <<hist, file, loaded, cfg, lastKey, keyRepeatCount, ticks, exports, listCount, listCur, editorText, clock, status, crashed,
                   fetches, queue, completed, appended, connStatus>>
    /\ UNCHANGED resultVars

\* A left click on a view of the layout gives it the focus (mouse support is
\* enabled; the mouse captures of the panes only recolour the borders).
ClickPane(p) ==
    /\ ~crashed
    /\ focus # p
    /\ focus' = p
    /\ UNCHANGED <<hist, file, loaded, cfg, lastKey, keyRepeatCount, ticks, exports, listCount, listCur, editorText, clock, status, crashed,
                   fetches, queue, completed, appended, connStatus>>
    /\ UNCHANGED resultVars

\* app.SetInputCapture, Ctrl-E: the rows are marshalled (which cannot fail
\* for values that json.Unmarshal produced) and written to a new file named
\* after the time; os.WriteFile may fail.
ExportResultsEndpointOrder ==
    /\ ~crashed
    /\ IF Len(currentData) > 0
       THEN \E written \in BOOLEAN :
               IF written
               THEN /\ exports' = Append(exports, endpointData)
                    /\ status' = "Exported"
               ELSE /\ status' = "Failed to export"
                    /\ UNCHANGED exports
       ELSE /\ status' = "No results to export"
            /\ UNCHANGED exports
    /\ UNCHANGED <<hist, file, loaded, cfg, lastKey, keyRepeatCount, ticks, listCount, listCur, editorText, focus, clock,
                   crashed, fetches, queue, completed, appended, connStatus>>
    /\ UNCHANGED resultVars

ExportResults ==
    /\ ~crashed
    /\ IF Len(currentData) > 0
       THEN \E written \in BOOLEAN :
               IF written
               THEN /\ exports' = Append(exports, currentData)
                    /\ status' = "Exported"
               ELSE /\ status' = "Failed to export"
                    /\ UNCHANGED exports
       ELSE /\ status' = "No results to export"
            /\ UNCHANGED exports
    /\ UNCHANGED <<hist, file, loaded, cfg, lastKey, keyRepeatCount, ticks, listCount, listCur, editorText, focus, clock,
                   crashed, fetches, queue, completed, appended, connStatus>>
    /\ UNCHANGED resultVars

\* Ctrl-Q (or a panic) ends the process and with it every goroutine and
\* queued update; the operator starts dbx again: main runs up to app.Run
\* with the history file as it is now. Time goes on.
Restart ==
    /\ hist' = StartHistory(file)
    /\ loaded' = StartHistory(file)
    /\ listCount' = ListItemsFor(StartHistory(file))
    /\ listCur' = 0
    /\ editorText' = <<>>
    /\ focus' = "Editor"
    /\ status' = "help"
    /\ crashed' = FALSE
    /\ fetches' = {}
    /\ queue' = <<>>
    /\ completed' = <<>>
    /\ currentData' = <<>>
    /\ currentColumns' = <<>>
    /\ currentRowCount' = 0
    /\ sortColumn' = -1
    /\ sortAscending' = TRUE
    /\ endpointData' = <<>>
    /\ table' = EmptyTable
    /\ selRow' = 0
    /\ selCol' = 0
    /\ detail' = [kind |-> "empty"]
    /\ rawView' = [kind |-> "empty"]
    /\ connStatus' = "Checking"
    /\ lastKey' = "none"
    /\ keyRepeatCount' = 0
    /\ UNCHANGED <<file, cfg, ticks, exports, clock, appended>>

\* runQuery(query), up to and including the go statement; ok is whether
\* saveHistory succeeds.
runQueryFetchBeforeSave(query) ==
    /\ clock' = clock + 1
    /\ sortColumn' = -1
    /\ sortAscending' = TRUE
    /\ hist' = hist
    /\ file' = file
    /\ status' = "Running query..."
    /\ UNCHANGED <<listCount, listCur>>
    /\ focus' = "Results"
    /\ currentRowCount' = 0
    /\ table' = EmptyTable
    /\ fetches' = fetches \cup {[id |-> clock + 1, query |-> query]}
    /\ UNCHANGED <<loaded, cfg, lastKey, keyRepeatCount, ticks, exports, editorText, crashed, queue, completed, appended, connStatus, currentData,
                   currentColumns, endpointData, selRow, selCol, detail, rawView>>

runQueryKeepsFocus(query) ==
    /\ clock' = clock + 1
    /\ sortColumn' = -1
    /\ sortAscending' = TRUE
    /\ hist' = appendHistory(hist, query, MaxHistoryEntries, clock + 1)
    /\ \E saved \in saveHistory(hist', file) :
          /\ file' = saved.file
          /\ IF saved.ok
             THEN /\ status' = "Running query..."
                  /\ listCount' = ListItemsFor(hist')
                  /\ listCur' = 0
             ELSE /\ status' = "Failed to save history"
                  /\ UNCHANGED <<listCount, listCur>>
    /\ focus' = focus
    /\ currentRowCount' = 0
    /\ table' = EmptyTable
    /\ fetches' = fetches \cup {[id |-> clock + 1, query |-> query]}
    /\ UNCHANGED <<loaded, cfg, lastKey, keyRepeatCount, ticks, exports, editorText, crashed, queue, completed, appended, connStatus, currentData,
                   currentColumns, endpointData, selRow, selCol, detail, rawView>>

runQueryStopsOnSaveFailure(query) ==
    /\ clock' = clock + 1
    /\ sortColumn' = -1
    /\ sortAscending' = TRUE
    /\ hist' = appendHistory(hist, query, MaxHistoryEntries, clock + 1)
    /\ \E saved \in saveHistory(hist', file) :
          /\ file' = saved.file
          /\ IF saved.ok
             THEN /\ status' = "Running query..."
                  /\ listCount' = ListItemsFor(hist')
                  /\ listCur' = 0
             ELSE /\ status' = "Failed to save history"
                  /\ UNCHANGED <<listCount, listCur>>
    /\ focus' = "Results"
    /\ currentRowCount' = 0
    /\ table' = EmptyTable
    /\ fetches' = IF status' = "Failed to save history"
                  THEN fetches
                  ELSE fetches \cup {[id |-> clock + 1, query |-> query]}
    /\ UNCHANGED <<loaded, cfg, lastKey, keyRepeatCount, ticks, exports, editorText, crashed, queue, completed, appended, connStatus, currentData,
                   currentColumns, endpointData, selRow, selCol, detail, rawView>>

runQuerySendsTrimmed(query) ==
    /\ clock' = clock + 1
    /\ sortColumn' = -1
    /\ sortAscending' = TRUE
    /\ hist' = appendHistory(hist, query, MaxHistoryEntries, clock + 1)
    /\ \E saved \in saveHistory(hist', file) :
          /\ file' = saved.file
          /\ IF saved.ok
             THEN /\ status' = "Running query..."
                  /\ listCount' = ListItemsFor(hist')
                  /\ listCur' = 0
             ELSE /\ status' = "Failed to save history"
                  /\ UNCHANGED <<listCount, listCur>>
    /\ focus' = "Results"
    /\ currentRowCount' = 0
    /\ table' = EmptyTable
    /\ fetches' = fetches \cup {[id |-> clock + 1, query |-> TrimSpace(query)]}
    /\ UNCHANGED <<loaded, cfg, lastKey, keyRepeatCount, ticks, exports, editorText, crashed, queue, completed, appended, connStatus, currentData,
                   currentColumns, endpointData, selRow, selCol, detail, rawView>>

runQueryCancelsInFlight(query) ==
    /\ clock' = clock + 1
    /\ sortColumn' = -1
    /\ sortAscending' = TRUE
    /\ hist' = appendHistory(hist, query, MaxHistoryEntries, clock + 1)
    /\ \E saved \in saveHistory(hist', file) :
          /\ file' = saved.file
          /\ IF saved.ok
             THEN /\ status' = "Running query..."
                  /\ listCount' = ListItemsFor(hist')
                  /\ listCur' = 0
             ELSE /\ status' = "Failed to save history"
                  /\ UNCHANGED <<listCount, listCur>>
    /\ focus' = "Results"
    /\ currentRowCount' = 0
    /\ table' = EmptyTable
    /\ fetches' = {[id |-> clock + 1, query |-> query]}
    /\ UNCHANGED <<loaded, cfg, lastKey, keyRepeatCount, ticks, exports, editorText, crashed, queue, completed, appended, connStatus, currentData,
                   currentColumns, endpointData, selRow, selCol, detail, rawView>>

runQuerySkipsBlankFetch(query) ==
    /\ clock' = clock + 1
    /\ sortColumn' = -1
    /\ sortAscending' = TRUE
    /\ hist' = appendHistory(hist, query, MaxHistoryEntries, clock + 1)
    /\ \E saved \in saveHistory(hist', file) :
          /\ file' = saved.file
          /\ IF saved.ok
             THEN /\ status' = "Running query..."
                  /\ listCount' = ListItemsFor(hist')
                  /\ listCur' = 0
             ELSE /\ status' = "Failed to save history"
                  /\ UNCHANGED <<listCount, listCur>>
    /\ focus' = "Results"
    /\ currentRowCount' = 0
    /\ table' = EmptyTable
    /\ fetches' = IF TrimSpace(query) = <<>> THEN fetches
                  ELSE fetches \cup {[id |-> clock + 1, query |-> query]}
    /\ UNCHANGED <<loaded, cfg, lastKey, keyRepeatCount, ticks, exports, editorText, crashed, queue, completed, appended, connStatus, currentData,
                   currentColumns, endpointData, selRow, selCol, detail, rawView>>

runQuery(query) ==
    /\ clock' = clock + 1
    /\ sortColumn' = -1
    /\ sortAscending' = TRUE
    /\ hist' = appendHistory(hist, query, MaxHistoryEntries, clock + 1)
    /\ \E saved \in saveHistory(hist', file) :
          /\ file' = saved.file
          /\ IF saved.ok
             THEN /\ status' = "Running query..."
                  /\ listCount' = ListItemsFor(hist')
                  /\ listCur' = 0
             ELSE /\ status' = "Failed to save history"
                  /\ UNCHANGED <<listCount, listCur>>
    /\ focus' = "Results"
    /\ currentRowCount' = 0
    /\ table' = EmptyTable
    /\ fetches' = fetches \cup {[id |-> clock + 1, query |-> query]}
    /\ UNCHANGED <<loaded, cfg, lastKey, keyRepeatCount, ticks, exports, editorText, crashed, queue, completed, appended, connStatus, currentData,
                   currentColumns, endpointData, selRow, selCol, detail, rawView>>

\* app.SetInputCapture, Enter while the editor has the focus.
EnterInEditor ==
    /\ ~crashed
    /\ focus = "Editor"
    /\ runQuery(editorText)

\* Arrow keys in the history list move the current item.
MoveHistoryCursor(i) ==
    /\ ~crashed
    /\ focus = "History"
    /\ i \in 0..(listCount - 1)
    /\ i # listCur
    /\ listCur' = i
    /\ UNCHANGED <<hist, file, loaded, cfg, lastKey, keyRepeatCount, ticks, exports, listCount, editorText, focus, clock, status, crashed,
                   fetches, queue, completed, appended, connStatus>>
    /\ UNCHANGED resultVars

\* Enter on the current item of the history list: the closure added by
\* refreshHistoryList reads hist.Entries[idx]; an index past the end panics.
ActivateHistoryItem ==
    /\ ~crashed
    /\ focus = "History"
    /\ listCount > 0
    /\ IF listCur < Len(hist)
       THEN /\ editorText' = hist[listCur + 1].Query
            /\ focus' = "Editor"
            /\ UNCHANGED crashed
       ELSE /\ crashed' = TRUE
            /\ UNCHANGED <<editorText, focus>>
    /\ UNCHANGED <<hist, file, loaded, cfg, lastKey, keyRepeatCount, ticks, exports, listCount, listCur, clock, status,
                   fetches, queue, completed, appended, connStatus>>
    /\ UNCHANGED resultVars

\* historyList.SetInputCapture, 'd' or 'D'.
DeleteHistoryEntry ==
    /\ ~crashed
    /\ focus = "History"
    /\ listCur >= 0 /\ listCur < Len(hist)
    /\ hist' = RemoveAt(hist, listCur)
    /\ \E saved \in saveHistory(hist', file) :
          /\ file' = saved.file
          /\ IF saved.ok
             THEN /\ listCount' = ListItemsFor(hist')
                  /\ listCur' = IF listCount' > 0 /\ listCur >= listCount'
                                THEN listCount' - 1
                                ELSE IF listCount' > 0 THEN listCur ELSE 0
                  /\ status' = "History entry deleted"
             ELSE /\ status' = "Failed to save history"
                  /\ UNCHANGED <<listCount, listCur>>
    /\ UNCHANGED <<loaded, cfg, lastKey, keyRepeatCount, ticks, exports, editorText, focus, clock, crashed,
                   fetches, queue, completed, appended, connStatus>>
    /\ UNCHANGED resultVars

\* The table selects a cell (a click on it, or the table's own Home/j/k/h/l
\* keys); SetSelectionChangedFunc then refreshes the detail view.
SelectCell(r, c) ==
    /\ ~crashed
    /\ r \in 0..(RowCount(table) - 1)
    /\ c \in 0..(Len(table.header) - 1)
    /\ <<r, c>> # <<selRow, selCol>>
    /\ selRow' = r
    /\ selCol' = c
    /\ focus' = "Results"
    /\ detail' = IF r > 0 /\ Len(currentData) > 0 THEN updateDetailView(r, currentData)
                 ELSE detail
    /\ UNCHANGED <<hist, file, loaded, cfg, lastKey, keyRepeatCount, ticks, exports, listCount, listCur, editorText, clock, status, crashed,
                   fetches, queue, completed, appended, connStatus, currentData, currentColumns,
                   currentRowCount, sortColumn, sortAscending, endpointData, table, rawView>>

\* resultsTable.SetInputCapture: the row the handler selects for Page Up or
\* Up (UpRow) and for Page Down or Down (DownRow) with the given step, in a
\* table of rowCount rows.
UpRow(row, step) == IF row - step < 1 THEN 1 ELSE row - step

DownRow(row, step, rowCount) == IF row + step >= rowCount THEN rowCount - 1 ELSE row + step

\* Table.Select(row, col) followed by the selection changed handler.
Select(row, col) ==
    /\ selRow' = row
    /\ selCol' = col
    /\ detail' = IF row > 0 /\ Len(currentData) > 0 THEN updateDetailView(row, currentData)
                 ELSE detail

\* resultsTable.SetInputCapture, Page Down and Page Up.
KeyPgDn ==
    /\ ~crashed
    /\ focus = "Results"
    /\ Select(DownRow(selRow, cfg.PageScrollStep, RowCount(table)), selCol)
    /\ UNCHANGED <<hist, file, loaded, cfg, lastKey, keyRepeatCount, ticks, exports, listCount, listCur,
                   editorText, focus, clock, status, crashed, fetches, queue, completed, appended,
                   connStatus, currentData, currentColumns, currentRowCount, sortColumn,
                   sortAscending, endpointData, table, rawView>>

KeyPgUp ==
    /\ ~crashed
    /\ focus = "Results"
    /\ Select(UpRow(selRow, cfg.PageScrollStep), selCol)
    /\ UNCHANGED <<hist, file, loaded, cfg, lastKey, keyRepeatCount, ticks, exports, listCount, listCur,
                   editorText, focus, clock, status, crashed, fetches, queue, completed, appended,
                   connStatus, currentData, currentColumns, currentRowCount, sortColumn,
                   sortAscending, endpointData, table, rawView>>

\* resultsTable.SetInputCapture, Down and Up: key is the arrow pressed and
\* quick whether it comes within scroll_repeat_timeout_ms of the last arrow.
KeyArrow(key, quick) ==
    /\ ~crashed
    /\ focus = "Results"
    /\ LET isRepeat == key = lastKey /\ quick
           count == IF isRepeat THEN keyRepeatCount + 1 ELSE 0
           step == IF isRepeat /\ count > cfg.ScrollRepeatThreshold
                   THEN cfg.ScrollAcceleration ELSE 1
       IN  /\ count <= MaxKeyRepeat
           /\ keyRepeatCount' = count
           /\ lastKey' = key
           /\ IF key = "Down"
              THEN Select(DownRow(selRow, step, RowCount(table)), selCol)
              ELSE Select(UpRow(selRow, step), selCol)
    /\ UNCHANGED <<hist, file, loaded, cfg, ticks, exports, listCount, listCur,
                   editorText, focus, clock, status, crashed, fetches, queue, completed, appended,
                   connStatus, currentData, currentColumns, currentRowCount, sortColumn,
                   sortAscending, endpointData, table, rawView>>

\* Left and Right are not captured: the table moves the selection by one
\* column within the row and stops at the first and the last column.
KeySideways(d) ==
    /\ ~crashed
    /\ focus = "Results"
    /\ RowCount(table) > 0
    /\ Select(selRow, Max(0, Min(selCol + d, Len(table.header) - 1)))
    /\ UNCHANGED <<hist, file, loaded, cfg, lastKey, keyRepeatCount, ticks, exports, listCount, listCur,
                   editorText, focus, clock, status, crashed, fetches, queue, completed, appended,
                   connStatus, currentData, currentColumns, currentRowCount, sortColumn,
                   sortAscending, endpointData, table, rawView>>

\* resultsTable.SetSelectedFunc(row, col): the body of the header branch.
SortByHeaderStaleDetail(col) ==
    LET colName == currentColumns[col + 1]
        toggled == SortToggle(sortColumn, sortAscending, col)
    IN  /\ sortColumn' = toggled[1]
        /\ sortAscending' = toggled[2]
        /\ currentData' \in SortOutcomes(currentData, colName, toggled[2])
        /\ table' = renderJSONToTable(currentData', cfg.MaxColumnWidth)
        /\ currentColumns' = renderColumns(currentData', currentColumns)
        /\ selRow' = 1
        /\ selCol' = 0
        /\ detail' = updateDetailView(1, currentData)

SortByHeader(col) ==
    LET colName == currentColumns[col + 1]
        toggled == SortToggle(sortColumn, sortAscending, col)
    IN  /\ sortColumn' = toggled[1]
        /\ sortAscending' = toggled[2]
        /\ currentData' \in SortOutcomes(currentData, colName, toggled[2])
        /\ table' = renderJSONToTable(currentData', cfg.MaxColumnWidth)
        /\ currentColumns' = renderColumns(currentData', currentColumns)
        /\ selRow' = 1
        /\ selCol' = 0
        /\ detail' = updateDetailView(1, currentData')

\* Enter in the results table calls the selected function with the current
\* selection (the table ignores keys while it has no rows); the handler acts
\* on the header row only.
ActivateCellOnEmptyTable ==
    /\ ~crashed
    /\ focus = "Results"
    /\ selRow = 0 /\ Len(currentData) > 0 /\ selCol < Len(currentColumns)
    /\ IF RenderPanics(currentData, cfg.MaxColumnWidth)
       THEN /\ crashed' = TRUE
            /\ UNCHANGED <<sortColumn, sortAscending, currentData, table, currentColumns,
                           selRow, selCol, detail>>
       ELSE /\ SortByHeader(selCol)
            /\ UNCHANGED crashed
    /\ UNCHANGED <<hist, file, loaded, cfg, lastKey, keyRepeatCount, ticks, exports, listCount, listCur, editorText, focus, clock, status,
                   fetches, queue, completed, appended, connStatus, currentRowCount,
                   endpointData, rawView>>

ActivateCell ==
    /\ ~crashed
    /\ focus = "Results"
    /\ RowCount(table) > 0
    /\ selRow = 0 /\ Len(currentData) > 0 /\ selCol < Len(currentColumns)
    /\ IF RenderPanics(currentData, cfg.MaxColumnWidth)
       THEN /\ crashed' = TRUE
            /\ UNCHANGED <<sortColumn, sortAscending, currentData, table, currentColumns,
                           selRow, selCol, detail>>
       ELSE /\ SortByHeader(selCol)
            /\ UNCHANGED crashed
    /\ UNCHANGED <<hist, file, loaded, cfg, lastKey, keyRepeatCount, ticks, exports, listCount, listCur, editorText, focus, clock, status,
                   fetches, queue, completed, appended, connStatus, currentRowCount,
                   endpointData, rawView>>

(***************************************************************************)
(* Background goroutines and the update channel.                           *)
(***************************************************************************)
\* The goroutine of runQuery: fetchQuery returns and the update is queued.
FetchReturnWritesData(f, resp) ==
    /\ f \in fetches
    /\ fetches' = fetches \ {f}
    /\ queue' = Append(queue, [kind |-> "result", id |-> f.id, res |-> fetchQuery(resp)])
    /\ completed' = Append(completed, [id |-> f.id, resp |-> resp, res |-> fetchQuery(resp)])
    /\ currentData' = IF fetchQuery(resp).err THEN currentData ELSE ProjectRows(fetchQuery(resp))
    /\ UNCHANGED <<hist, file, loaded, cfg, lastKey, keyRepeatCount, ticks, exports, listCount, listCur, editorText, focus, clock, status,
                   crashed, appended, connStatus, currentColumns, currentRowCount, sortColumn,
                   sortAscending, endpointData, table, selRow, selCol, detail, rawView>>

FetchReturn(f, resp) ==
    /\ f \in fetches
    /\ fetches' = fetches \ {f}
    /\ queue' = Append(queue, [kind |-> "result", id |-> f.id, res |-> fetchQuery(resp)])
    /\ completed' = Append(completed, [id |-> f.id, resp |-> resp, res |-> fetchQuery(resp)])
    /\ UNCHANGED <<hist, file, loaded, cfg, lastKey, keyRepeatCount, ticks, exports, listCount, listCur, editorText, focus, clock, status,
                   crashed, appended, connStatus>>
    /\ UNCHANGED resultVars

\* The text the queued update of the connection checker shows for a probe.
ClassifyProbeInclusive(outcome) ==
    IF ~outcome.err
    THEN IF outcome.code <= 500 THEN "Connected" ELSE "Server Error"
    ELSE "Disconnected"

ClassifyProbe(outcome) ==
    IF ~outcome.err
    THEN IF outcome.code < 500 THEN "Connected" ELSE "Server Error"
    ELSE "Disconnected"

\* Number of monitor updates waiting in the channel.
MonitorPending == Cardinality({i \in 1..Len(queue) : queue[i].kind = "status"})

\* One round of the connection status checker: the probe is made and the
\* update that will show its outcome is queued.
MonitorProbe(outcome) ==
    /\ MonitorPending < MaxMonitorPending
    /\ ticks' = ticks + 1
    /\ queue' = Append(queue, [kind |-> "status", n |-> ticks + 1, probe |-> outcome])
    /\ UNCHANGED <<hist, file, loaded, cfg, lastKey, keyRepeatCount, exports, listCount, listCur, editorText, focus,
                   clock, status,
                   crashed, fetches, completed, appended, connStatus>>
    /\ UNCHANGED resultVars

\* The result model and views after the queued update of runQuery ran for res.
InstallRows(rows) ==
    /\ currentData' = rows
    /\ endpointData' = rows
    /\ table' = renderJSONToTable(rows, cfg.MaxColumnWidth)
    /\ currentColumns' = renderColumns(rows, currentColumns)
    /\ currentRowCount' = Len(rows)

ClearRows ==
    /\ currentData' = <<>>
    /\ endpointData' = <<>>
    /\ table' = EmptyTable
    /\ currentRowCount' = 0
    /\ UNCHANGED <<currentColumns, selRow, selCol>>

ApplyResult(res) ==
    IF ~res.err /\ RenderPanics(ProjectRows(res), cfg.MaxColumnWidth)
    THEN /\ crashed' = TRUE
         /\ UNCHANGED <<status, rawView, currentData, endpointData, table, currentColumns,
                        currentRowCount, selRow, selCol, detail>>
    ELSE /\ UNCHANGED crashed
         /\ IF res.err
            THEN /\ status' = "Error"
                 /\ rawView' = [kind |-> "error"]
                 /\ UNCHANGED <<currentData, endpointData, table, currentColumns, currentRowCount,
                                selRow, selCol, detail>>
            ELSE /\ rawView' = [kind |-> "raw", body |-> res.raw]
                 /\ IF res.kind = "json" /\ res.type = "maps"
                    THEN /\ InstallRows(res.rows)
                         /\ IF Len(res.rows) > 0
                            THEN /\ selRow' = 1 /\ selCol' = 0
                                 /\ detail' = updateDetailView(1, res.rows)
                            ELSE /\ UNCHANGED <<selRow, selCol>>
                                 /\ detail' = [kind |-> "No results"]
                         /\ status' = "Fetched rows"
                    ELSE IF res.kind = "json" /\ res.type = "slice"
                    THEN LET maps == ObjectRows(res.items) IN
                         IF Len(maps) > 0
                         THEN /\ InstallRows(maps)
                              /\ selRow' = 1 /\ selCol' = 0
                              /\ detail' = updateDetailView(1, maps)
                              /\ status' = "Fetched rows"
                         ELSE /\ ClearRows
                              /\ detail' = [kind |-> "JSON result (non-tabular)"]
                              /\ status' = "JSON result (non-tabular)"
                    ELSE IF res.kind = "json"
                    THEN /\ ClearRows
                         /\ detail' = [kind |-> "JSON result (see raw output)"]
                         /\ status' = "JSON result"
                    ELSE /\ ClearRows
                         /\ detail' = [kind |-> "Text result (see raw output)"]
                         /\ status' = "Text result"

\* The event loop takes the next update from the channel and runs it.
ApplyUpdateNewestFirst ==
    /\ ~crashed
    /\ queue # <<>>
    /\ queue' = SubSeq(queue, 1, Len(queue) - 1)
    /\ LET u == queue[Len(queue)] IN
       IF u.kind = "result"
       THEN /\ ApplyResult(u.res)
            /\ UNCHANGED connStatus
       ELSE /\ connStatus' = ClassifyProbe(u.probe)
            /\ UNCHANGED <<crashed, status, currentData, endpointData, table, currentColumns,
                           currentRowCount, selRow, selCol, detail, rawView>>
    /\ UNCHANGED <<hist, file, loaded, cfg, lastKey, keyRepeatCount, ticks, exports, listCount, listCur, editorText, focus, clock,
                   fetches, completed, appended, sortColumn, sortAscending>>

ApplyUpdate ==
    /\ ~crashed
    /\ queue # <<>>
    /\ queue' = Tail(queue)
    /\ LET u == Head(queue) IN
       IF u.kind = "result"
       THEN /\ ApplyResult(u.res)
            /\ UNCHANGED connStatus
       ELSE /\ connStatus' = ClassifyProbe(u.probe)
            /\ UNCHANGED <<crashed, status, currentData, endpointData, table, currentColumns,
                           currentRowCount, selRow, selCol, detail, rawView>>
    /\ UNCHANGED <<hist, file, loaded, cfg, lastKey, keyRepeatCount, ticks, exports, listCount, listCur, editorText, focus, clock,
                   fetches, completed, appended, sortColumn, sortAscending>>

(***************************************************************************)
(* Specifications.                                                         *)
(***************************************************************************)
\* The history store under the session's handlers: any history file at
\* startup, submissions, list navigation, activation and deletion. The
\* fetches that runQuery starts stay in flight here: their completion writes
\* no history state (SpecSession explores it).
InitHistory == \E f \in InitialFiles : InitWith(f)

NextHistory ==
    \/ \E t \in EditorTexts : Type(t)
    \/ Tab
    \/ (clock < MaxHistoryRuns /\ EnterInEditor)
    \/ \E i \in 0..MaxHistoryEntries : MoveHistoryCursor(i)
    \/ ActivateHistoryItem
    \/ DeleteHistoryEntry

SpecHistory == InitHistory /\ [][NextHistory]_vars

\* The result model under the session's handlers and the fetch goroutines:
\* no history file at startup, the editor left empty.
InitSession == InitWith(FileMissing)

NextSession ==
    \/ Tab
    \/ \E p \in Panes : ClickPane(p)
    \/ (clock < MaxRuns /\ EnterInEditor)
    \/ \E r \in 0..2, c \in 0..1 : SelectCell(r, c)
    \/ ActivateCell
    \/ \E f \in fetches, resp \in Responses : FetchReturn(f, resp)
    \/ ApplyUpdate

SpecSession == InitSession /\ [][NextSession]_vars

\* Both background tasks against the event loop: the connection monitor and
\* the fetch goroutines queue their updates, the loop applies them.
TaskResponses == {TransportError, ArrayBody(<<Obj(Row9)>>)}

NextTasks ==
    \/ ClickPane("Editor")
    \/ (clock < MaxRuns /\ EnterInEditor)
    \/ \E f \in fetches, resp \in TaskResponses : FetchReturn(f, resp)
    \/ (ticks < MaxTicks /\ \E o \in ProbeOutcomes : MonitorProbe(o))
    \/ ApplyUpdate

SpecTasks == InitSession /\ [][NextTasks]_vars

\* appendHistory applied to pairwise distinct queries, from an empty history.
EvictionAppends == MaxHistoryEntries + 5
EvictionQueries == {[k \in 1..i |-> "a"] : i \in 1..EvictionAppends}

AppendStep(q) ==
    /\ Len(appended) < EvictionAppends
    /\ \A i \in 1..Len(appended) : TrimSpace(appended[i]) # TrimSpace(q)
    /\ hist' = appendHistory(hist, q, MaxHistoryEntries, clock + 1)
    /\ clock' = clock + 1
    /\ appended' = Append(appended, q)
    /\ UNCHANGED <<file, loaded, cfg, lastKey, keyRepeatCount, ticks, exports, listCount, listCur, editorText, focus, status, crashed,
                   fetches, queue, completed, connStatus>>
    /\ UNCHANGED resultVars

InitEvict == InitWith(FileMissing)
NextEvict == \E q \in EvictionQueries : AppendStep(q)
SpecEvict == InitEvict /\ [][NextEvict]_vars

\* The sort handler over rows with numeric ids of different lengths and a
\* row that lacks the id key.
SortResponses ==
    {ArrayBody(<<Obj(RowId9), Obj(RowId10), Obj(RowNoId)>>),
     ArrayBody(<<Obj(Row21), Obj(Row12)>>)}

NextSort ==
    \/ (clock < MaxSortRuns /\ EnterInEditor)
    \/ \E f \in fetches, resp \in SortResponses : FetchReturn(f, resp)
    \/ ApplyUpdate
    \/ \E r \in 0..3, c \in 0..1 : SelectCell(r, c)
    \/ ActivateCell

SpecSort == InitSession /\ [][NextSort]_vars

\* renderJSONToTable under the values max_column_width may have in the
\* configuration file (0 when the file does not mention it), over rows with
\* values longer than minColWidth, one of them behind the rows that are
\* sampled for the width.
ConfiguredWidths == {0, 5, 9, 40}
LongText == [i \in 1..10 |-> "a"]
RowLong == [id |-> JNum(1), name |-> JStr(LongText)]
RenderResponses ==
    {ArrayBody(<<Obj(RowLong), Obj(Row12)>>),
     ArrayBody(<<Obj(Row12), Obj(Row12), Obj(Row12), Obj(Row12), Obj(Row12), Obj(RowLong)>>),
     TextBody}

InitRender == \E w \in ConfiguredWidths : InitWithConfig(FileMissing, [DefaultConfig EXCEPT !.MaxColumnWidth = w])

NextRender ==
    \/ Tab
    \/ (clock < MaxRenderRuns /\ EnterInEditor)
    \/ \E f \in fetches, resp \in RenderResponses : FetchReturn(f, resp)
    \/ ApplyUpdate
    \/ \E r \in 0..1, c \in 0..1 : SelectCell(r, c)

SpecRender == InitRender /\ [][NextRender]_vars

\* The focus under the keyboard and the mouse: Tab, clicks on every view of
\* the layout, submissions, cell selection and header activation.
NextFocus ==
    \/ Tab
    \/ \E p \in Panes \cup OtherViews : ClickPane(p)
    \/ (clock < MaxFocusRuns /\ EnterInEditor)
    \/ \E r \in 0..2, c \in 0..1 : SelectCell(r, c)
    \/ ActivateCell
    \/ \E f \in fetches, resp \in Responses : FetchReturn(f, resp)
    \/ ApplyUpdate

SpecFocus == InitSession /\ [][NextFocus]_vars

\* The history across sessions: any kind of history file at startup, queries
\* with characters that JSON escapes, saves that succeed or fail, deletions,
\* and restarts that load what the last session left.
PersistTexts ==
    {<<"a", "\"", "b">>, <<"<", "\\", "\n", "b">>, <<" ", "\t">>, <<"\n", "b", ">", " ">>}
PersistFiles ==
    {FileMissing, FileUnreadable, FileCorrupt,
     FileJSON(<<HistoryEntry(<<"b", ">">>, 0)>>)}

InitPersist == \E f \in PersistFiles : InitWith(f)

NextPersist ==
    \/ \E t \in PersistTexts : Type(t)
    \/ Tab
    \/ (clock < MaxPersistRuns /\ EnterInEditor)
    \/ DeleteHistoryEntry
    \/ Restart

SpecPersist == InitPersist /\ [][NextPersist]_vars

\* Saves that fail or succeed in runs and deletions, with the fetches of
\* the runs returning and their updates applied, and the history list used
\* afterwards.
SaveFailResponses == {TransportError, ArrayBody(<<Obj(Row9)>>)}

InitSaveFail == InitWith(FileJSON(<<HistoryEntry(<<"b">>, 0)>>))

NextSaveFail ==
    \/ Type(<<"a">>)
    \/ Tab
    \/ (clock < MaxSaveFailRuns /\ EnterInEditor)
    \/ DeleteHistoryEntry
    \/ ActivateHistoryItem
    \/ \E f \in fetches, resp \in SaveFailResponses : FetchReturn(f, resp)
    \/ ApplyUpdate

SpecSaveFail == InitSaveFail /\ [][NextSaveFail]_vars

\* The detail view over rows whose keys differ from the columns and whose
\* values are as long as, and longer than, what the view shows of a value.
FullText == [i \in 1..DetailMax |-> "a"]
RowWide ==
    [name |-> JStr(<<"d">>), mail |-> JStr(FullText), email |-> JStr(FullText \o <<"b">>)]
DetailResponses ==
    {ArrayBody(<<Obj(Row12), Obj(RowWide)>>), ArrayBody(<<Obj(RowWide), Obj(Row21)>>)}

NextDetail ==
    \/ (clock < MaxDetailRuns /\ EnterInEditor)
    \/ ClickPane("Editor")
    \/ \E f \in fetches, resp \in DetailResponses : FetchReturn(f, resp)
    \/ ApplyUpdate
    \/ \E r \in 0..2, c \in 0..2 : SelectCell(r, c)
    \/ ActivateCell

SpecDetail == InitSession /\ [][NextDetail]_vars

\* Keyboard navigation in the results table: five rows or none, the arrow
\* and page keys with and without key repeat, and Enter.
KeyResponses ==
    {TextBody,
     ArrayBody(<<Obj(Row21), Obj(Row12), Obj(Row9), Obj(RowId9), Obj(RowId10)>>)}

NextKeys ==
    \/ (clock < MaxKeyRuns /\ EnterInEditor)
    \/ ClickPane("Editor")
    \/ \E f \in fetches, resp \in KeyResponses : FetchReturn(f, resp)
    \/ ApplyUpdate
    \/ KeyPgDn
    \/ KeyPgUp
    \/ \E key \in {"Up", "Down"}, quick \in BOOLEAN : KeyArrow(key, quick)
    \/ \E d \in {-1, 1} : KeySideways(d)

SpecKeys == InitSession /\ [][NextKeys]_vars

\* The fetch goroutines and the event loop when the loop keeps running:
\* queries submitted while others are in flight, and every queued update
\* applied in the end. Whether a fetch ever returns is left open.
LiveResponses == {TransportError, ArrayBody(<<Obj(Row9)>>)}

\* The goroutine of the run with the given id returns.
ReturnOf(id) == \E f \in fetches, resp \in LiveResponses : f.id = id /\ FetchReturn(f, resp)

NextLive ==
    \/ ClickPane("Editor")
    \/ (clock < MaxLiveRuns /\ EnterInEditor)
    \/ \E id \in 1..MaxLiveRuns : ReturnOf(id)
    \/ ApplyUpdate

SpecLive == InitSession /\ [][NextLive]_vars /\ WF_vars(ApplyUpdate)

\* What the operator can do between a submission and its response: panes
\* cycled, cells clicked, Enter in the table, arrow and page
\* keys, exports, further submissions.
IntervalResponses == {TransportError, ArrayBody(<<Obj(Row9)>>)}

NextInterval ==
    \/ Tab
    \/ (clock < MaxIntervalRuns /\ EnterInEditor)
    \/ \E f \in fetches, resp \in IntervalResponses : FetchReturn(f, resp)
    \/ ApplyUpdate
    \/ \E r \in 0..1, c \in 0..1 : SelectCell(r, c)
    \/ ActivateCell
    \/ KeyPgDn
    \/ KeyPgUp
    \/ \E key \in {"Up", "Down"} : KeyArrow(key, FALSE)
    \/ \E d \in {-1, 1} : KeySideways(d)
    \/ (Len(exports) < MaxIntervalExports /\ ExportResults)

SpecInterval == InitSession /\ [][NextInterval]_vars

\* Submissions among the other keys and clicks: texts that are empty, made
\* of whitespace only or not, Tab and clicks on the panes, Enter in the
\* editor, in the history list and on the results table, and the responses
\* that fill the table between submissions.
SubmitTexts == {<<>>, <<" ", "\t">>, <<"a">>}
SubmitResponses == {TransportError, ArrayBody(<<Obj(Row9)>>)}

NextSubmit ==
    \/ \E t \in SubmitTexts : Type(t)
    \/ Tab
    \/ \E p \in {"Editor", "History", "Results"} : ClickPane(p)
    \/ (clock < MaxSubmitRuns /\ EnterInEditor)
    \/ ActivateHistoryItem
    \/ \E r \in 0..1 : SelectCell(r, 0)
    \/ ActivateCell
    \/ \E f \in fetches, resp \in SubmitResponses : FetchReturn(f, resp)
    \/ ApplyUpdate

SpecSubmit == InitSession /\ [][NextSubmit]_vars

\* Exports between submissions, responses and sorts.
NextExport ==
    \/ (clock < MaxExportRuns /\ EnterInEditor)
    \/ \E f \in fetches, resp \in Responses : FetchReturn(f, resp)
    \/ ApplyUpdate
    \/ \E r \in 0..2, c \in 0..1 : SelectCell(r, c)
    \/ ActivateCell
    \/ (Len(exports) < MaxExports /\ ExportResults)

SpecExport == InitSession /\ [][NextExport]_vars

\* fetchQuery and the queued update over every shape of answer.
ShapeResponses ==
    {TransportError, TextBody, OtherJSON, NullBody,
     ArrayBody(<<>>), ArrayBody(<<Scalar, Scalar>>), ArrayBody(<<Obj(Row12)>>),
     ArrayBody(<<Scalar, Obj(Row21), Null, Obj(Row12)>>),
     ArrayBody(<<Null, Obj(Row9)>>), ArrayBody(<<Null>>)}

NextShapes ==
    \/ Tab
    \/ (clock < MaxShapeRuns /\ EnterInEditor)
    \/ \E f \in fetches, resp \in ShapeResponses : FetchReturn(f, resp)
    \/ ApplyUpdate

SpecShapes == InitSession /\ [][NextShapes]_vars

(***************************************************************************)
(* Properties.                                                             *)
(***************************************************************************)
NoAdjacentDuplicates(h) ==
    \A i \in 1..(Len(h) - 1) : h[i].Query # h[i + 1].Query

\* C1: when the history loaded at startup has no two adjacent entries with
\* the same query, no reachable history has two adjacent entries with the
\* same query, whatever submissions and deletions happened.
C1_NoAdjacentDuplicates ==
    NoAdjacentDuplicates(loaded) => NoAdjacentDuplicates(hist)

\* C2: in every reachable state, whatever history file was loaded, the
\* history holds at most MaxHistoryEntries entries.
C2_LengthAtMostMax == Len(hist) <= MaxHistoryEntries

\* C3: a submission compares the trimmed text with the entry at position 0
\* only. If they are equal, that entry's timestamp becomes the time of this
\* append and the length, every query and every other timestamp stay as they
\* were; otherwise a new entry with the trimmed text and this time is put in
\* front of the old entries (cut at the maximum), also when the same query
\* occurs further down the list.
C3_AppendComparesHeadOnly ==
    [][(clock' = clock + 1 /\ TrimSpace(editorText) # <<>>) =>
        LET q == TrimSpace(editorText) IN
        IF Len(hist) > 0 /\ hist[1].Query = q
        THEN /\ Len(hist') = Len(hist)
             /\ \A i \in 1..Len(hist) : hist'[i].Query = hist[i].Query
             /\ hist'[1].Timestamp = clock'
             /\ \A i \in 2..Len(hist) : hist'[i].Timestamp = hist[i].Timestamp
        ELSE /\ Len(hist') = Min(Len(hist) + 1, MaxHistoryEntries)
             /\ hist'[1] = HistoryEntry(q, clock')
             /\ \A i \in 2..Len(hist') : hist'[i] = hist[i - 1]]_vars

\* C3 witness: one entry loaded, then two submissions of other-then-same
\* query: three entries, the first and the third with the same query.
C3_Witness ==
    /\ Len(loaded) = 1
    /\ Len(hist) = 3
    /\ hist[1].Query = hist[3].Query
    /\ hist[1].Query # hist[2].Query
    /\ hist[1].Timestamp = 2 /\ hist[2].Timestamp = 1

\* C4: after MaxHistoryEntries + 5 pairwise distinct non-empty queries were
\* appended to an empty history, it holds exactly MaxHistoryEntries entries,
\* the most recently appended first, and none of the 5 appended first.
C4_EvictionDropsOldest ==
    Len(appended) = EvictionAppends =>
        /\ Len(hist) = MaxHistoryEntries
        /\ \A i \in 1..MaxHistoryEntries :
              hist[i].Query = TrimSpace(appended[EvictionAppends - i + 1])
        /\ \A j \in 1..5 : \A i \in 1..Len(hist) : hist[i].Query # TrimSpace(appended[j])

\* C4 witness: all the appends were made.
C4_Witness == Len(appended) = EvictionAppends /\ Len(hist) > 0

\* C5: in the step that starts the fetch of a submission, the history
\* already holds the submission's trimmed query at position 0 with the time
\* of this submission, and saveHistory has been attempted: the file holds
\* this history, or the failure to save is on the status line.
C5_AppendAndSaveBeforeFetch ==
    [][\A f \in fetches' \ fetches :
          /\ TrimSpace(f.query) # <<>> =>
                /\ Len(hist') > 0
                /\ hist'[1] = HistoryEntry(TrimSpace(f.query), f.id)
          /\ \/ file' = FileJSON(hist')
             \/ status' = "Failed to save history"]_vars

\* C5 witness: a fetch is in flight whose query heads the saved history.
C5_Witness ==
    \E f \in fetches :
        /\ Len(hist) > 0
        /\ hist[1] = HistoryEntry(TrimSpace(f.query), f.id)
        /\ file = FileJSON(hist)

\* The last fetch that returned with a response, if any.
RECURSIVE LastResponse(_)
LastResponse(c) ==
    IF c = <<>> THEN [id |-> 0]
    ELSE IF ~c[Len(c)].res.err THEN c[Len(c)]
    ELSE LastResponse(SubSeq(c, 1, Len(c) - 1))

\* C6: once every submitted query has returned and every update was applied,
\* the current rows are the rows projected from the response that returned
\* last (in the order the operator may since have sorted them), whichever
\* query was submitted later.
C6_LastCompletionWins ==
    (fetches = {} /\ queue = <<>> /\ LastResponse(completed).id # 0) =>
        /\ endpointData = ProjectRows(LastResponse(completed).res)
        /\ currentData \in SeqPermutations(endpointData)

\* C6 witness: the second query returned first, the first query last, both
\* with rows; the rows shown are those of the first query.
C6_Witness ==
    /\ fetches = {} /\ queue = <<>>
    /\ Len(completed) = 2
    /\ completed[1].id = 2 /\ ~completed[1].res.err /\ ProjectRows(completed[1].res) = <<Row9>>
    /\ completed[2].id = 1 /\ ~completed[2].res.err
    /\ currentData = <<Row21, Row12>>

\* C7: a step of a background task (one that puts an update into the channel)
\* writes nothing the event loop owns, and the connection status and the
\* result model change only in a step of the event loop: the connection
\* status in the step that takes a monitor update from the channel, the rows
\* never in a step that queues an update.
C7_TasksWriteOnlyThroughQueue ==
    [][/\ Len(queue') > Len(queue) => sessionVars' = sessionVars
       /\ connStatus' # connStatus =>
             /\ queue # <<>> /\ queue' = Tail(queue)
             /\ Head(queue).kind = "status" /\ connStatus' = ClassifyProbe(Head(queue).probe)
       /\ <<currentData, currentColumns, table>>' # <<currentData, currentColumns, table>> =>
             \/ queue # <<>> /\ queue' = Tail(queue) /\ Head(queue).kind = "result"
             \/ queue' = queue]_vars

\* C7 witness: a monitor update and a fetch result with rows wait in the
\* channel while the status and the rows are still those of startup.
C7_Witness ==
    /\ \E i \in 1..Len(queue) : queue[i].kind = "status"
    /\ \E i \in 1..Len(queue) :
          queue[i].kind = "result" /\ ~queue[i].res.err /\ ProjectRows(queue[i].res) # <<>>
    /\ connStatus = "Checking"
    /\ currentData = <<>>

\* The rows are in the order given by column colName and the direction.
OrderedBy(data, colName, ascending) ==
    \A i, j \in 1..Len(data) : i < j => ~SortLess(data[j], data[i], colName, ascending)

\* C8: whenever the result model has rows, they are in the order the
\* endpoint sent them if sortColumn is none, and otherwise ordered by the
\* column now at index sortColumn, in the direction of sortAscending.
C8_RowsReflectSortState ==
    Len(currentData) > 0 =>
        IF sortColumn = -1 THEN currentData = endpointData
        ELSE /\ sortColumn < Len(currentColumns)
             /\ OrderedBy(currentData, currentColumns[sortColumn + 1], sortAscending)

\* C9: in the step in which a query's response installs a result model
\* (rows projected from the response), sortColumn is none and sortAscending
\* is true afterwards, whatever submissions, header activations and response
\* arrivals came before.
C9_InstallLeavesUnsorted ==
    [][(queue # <<>> /\ queue' = Tail(queue) /\ Head(queue).kind = "result"
        /\ ~Head(queue).res.err /\ ProjectRows(Head(queue).res) # <<>>) =>
            (sortColumn' = -1 /\ sortAscending' = TRUE)]_vars

\* C10: activating the header of the sorted column flips sortAscending and
\* keeps sortColumn; activating another header makes that column the sorted
\* one, ascending. For the rows with ids 2, 1: activating id orders them 1, 2,
\* activating id again 2, 1, activating name then orders them by name,
\* ascending.
C10_SortToggle ==
    [][ActivateCell =>
        /\ IF sortColumn = selCol
           THEN sortColumn' = sortColumn /\ sortAscending' = ~sortAscending
           ELSE sortColumn' = selCol /\ sortAscending' = TRUE
        /\ (endpointData = <<Row21, Row12>> /\ currentColumns = <<"id", "name">>) =>
              /\ (selCol = 0 /\ sortColumn # 0) => currentData' = <<Row12, Row21>>
              /\ (selCol = 0 /\ sortColumn = 0 /\ sortAscending) =>
                    currentData' = <<Row21, Row12>>
              /\ (selCol = 0 /\ sortColumn = 0 /\ ~sortAscending) =>
                    currentData' = <<Row12, Row21>>
              /\ (selCol = 1 /\ sortColumn = 0) =>
                    /\ sortColumn' = 1 /\ sortAscending'
                    /\ currentData' = <<Row21, Row12>>]_vars

\* C10 witness: the id column was activated twice: descending by id, the
\* rows back in the order 2, 1, selection on the first data row.
C10_Witness ==
    /\ endpointData = <<Row21, Row12>>
    /\ sortColumn = 0 /\ ~sortAscending
    /\ currentData = <<Row21, Row12>>
    /\ selRow = 1

\* Number of positions at which row r occurs in data.
Occurrences(r, data) == Cardinality({i \in 1..Len(data) : data[i] = r})

\* C11: a header activation leaves the rows a permutation of the rows before
\* it, ordered by bytewise comparison of the printed cell of the activated
\* column in the new direction; a number is compared as its digits ("10"
\* before "9" ascending) and a row without the column as the text <nil>
\* (after every digit, ascending).
C11_SortIsLexicographicPermutation ==
    [][ActivateCell =>
        LET colName == currentColumns[selCol + 1]
            text(r) == IF colName \in DOMAIN r THEN Sprint(r[colName]) ELSE NilText
        IN  /\ Len(currentData') = Len(currentData)
            /\ \A i \in 1..Len(currentData) :
                  Occurrences(currentData[i], currentData') =
                      Occurrences(currentData[i], currentData)
            /\ \A i, j \in 1..Len(currentData') : i < j =>
                  IF sortAscending' THEN ~StrLess(text(currentData'[j]), text(currentData'[i]))
                  ELSE ~StrLess(text(currentData'[i]), text(currentData'[j]))
            /\ (currentData \in SeqPermutations(<<RowId9, RowId10, RowNoId>>)
                   /\ colName = "id") =>
                  currentData' = IF sortAscending' THEN <<RowId10, RowId9, RowNoId>>
                                 ELSE <<RowNoId, RowId9, RowId10>>]_vars

\* C11 witness: the rows sent as 9, 10, no-id were sorted by id ascending:
\* 10 stands before 9 and the row without an id last.
C11_Witness ==
    /\ endpointData = <<RowId9, RowId10, RowNoId>>
    /\ sortColumn = 0 /\ sortAscending
    /\ currentColumns = <<"id", "name">>
    /\ currentData = <<RowId10, RowId9, RowNoId>>

\* C12: whenever the result model has rows, the columns are exactly the keys
\* of its first row, each once, in ascending byte order, whatever keys the
\* other rows have.
C12_ColumnsAreFirstRowKeys ==
    Len(currentData) > 0 =>
        /\ {currentColumns[i] : i \in 1..Len(currentColumns)} = DOMAIN currentData[1]
        /\ Len(currentColumns) = Cardinality(DOMAIN currentData[1])
        /\ \A i, j \in 1..Len(currentColumns) : i < j =>
              StrLess(KeyText(currentColumns[i]), KeyText(currentColumns[j]))

\* C12 witness: the row without an id was sorted to the front of rows that
\* have one: name is the only column.
C12_Witness ==
    /\ currentData = <<RowNoId, RowId9, RowId10>>
    /\ currentColumns = <<"name">>

\* C13: for every column of the rendered table, whatever max_column_width is
\* configured, the width is at least 8 and at most cfg.MaxColumnWidth; a
\* cell whose printed value is longer than the width shows its first
\* width - 1 characters followed by one ellipsis, every other cell the
\* printed value.
C13_WidthCap ==
    \A c \in 1..Len(table.header) :
        LET w == table.widths[c] IN
        /\ 8 <= w /\ w <= cfg.MaxColumnWidth
        /\ \A r \in 1..Len(table.cells) :
              LET s == Cell(currentData[r], table.header[c]) IN
              table.cells[r][c] = IF Len(s) > w THEN SubSeq(s, 1, w - 1) \o <<Ellipsis>>
                                  ELSE s

\* C14: for every answer whose body was read, fetchQuery returns the body
\* unchanged as raw, and classifies it in this order: a body that
\* json.Unmarshal accepts as a list of row-maps is tabular with one row per
\* element; otherwise a body that is JSON is structured (so an array with a
\* scalar element is structured, not tabular); otherwise it is text, with
\* the body as payload.
C14_ShapeClassification ==
    \A i \in 1..Len(completed) :
        LET body == completed[i].resp
            res == completed[i].res
            asRows == \/ body.json = "null"
                      \/ /\ body.json = "array"
                         /\ \A k \in 1..Len(body.items) :
                               body.items[k].obj \/ body.items[k].null
        IN  IF body.err THEN res.err
            ELSE /\ ~res.err
                 /\ res.raw = body
                 /\ IF asRows
                    THEN /\ res.kind = "json" /\ res.type = "maps"
                         /\ Len(res.rows) = IF body.json = "null" THEN 0 ELSE Len(body.items)
                    ELSE IF body.json \in {"array", "value"}
                    THEN /\ res.kind = "json" /\ res.type # "maps"
                         /\ body.json = "array" => res.items = body.items
                    ELSE res.kind = "text" /\ res.text = body
                 /\ (body.json = "array" /\ \E k \in 1..Len(body.items) :
                        ~body.items[k].obj /\ ~body.items[k].null) => res.type = "slice"

\* C14 witness: an array of objects, an array of scalars and a body that is
\* no JSON have come back, classified tabular, structured and text.
C14_Witness ==
    /\ \E i \in 1..Len(completed) :
          completed[i].resp = ArrayBody(<<Obj(Row12)>>) /\ completed[i].res.type = "maps"
    /\ \E i \in 1..Len(completed) :
          /\ completed[i].resp \in {ArrayBody(<<Scalar, Scalar>>), TextBody}
          /\ completed[i].res.type \in {"slice", "string"}

\* C15: the update applied for a JSON array installs exactly the array's
\* object elements, in their order, every other element (scalar, nested
\* array, null) dropped; for an array that has elements but no object
\* among them it leaves no rows and shows the non-tabular display.
C15_ArrayKeepsObjectsOnly ==
    [][(queue # <<>> /\ queue' = Tail(queue) /\ Head(queue).kind = "result"
        /\ ~Head(queue).res.err /\ Head(queue).res.raw.json = "array") =>
            LET items == Head(queue).res.raw.items
                objects == ObjectRows(items)
            IN  /\ currentData' = objects
                /\ (objects = <<>> /\ items # <<>>) =>
                      detail' = [kind |-> "JSON result (non-tabular)"]]_vars

\* Number of monitor updates the event loop has applied.
TicksApplied == ticks - MonitorPending

\* C16: the connection status is Checking until the first health probe is
\* applied; the update applied is always that of the oldest probe not yet
\* applied, and it sets the status from that probe alone: Disconnected for a
\* transport failure, Server Error for a status of 500 or more, Connected
\* for any other status.
C16_StatusIsLastTick ==
    /\ [](TicksApplied = 0 => connStatus = "Checking")
    /\ [][(queue # <<>> /\ queue' = Tail(queue) /\ Head(queue).kind = "status") =>
            LET tick == Head(queue) IN
            /\ tick.n = TicksApplied + 1
            /\ connStatus' = IF tick.probe.err THEN "Disconnected"
                             ELSE IF tick.probe.code >= 500 THEN "Server Error"
                             ELSE "Connected"]_vars

\* C16 witness: the second probe, answered with status 500, has been applied.
C16_Witness ==
    /\ ticks = 2 /\ TicksApplied = 2
    /\ connStatus = "Server Error"

\* The ring of panes and the position of a pane in it.
Ring == <<"Editor", "History", "Results", "Detail", "Raw">>
RingPos(p) == CHOOSE i \in 1..Len(Ring) : Ring[i] = p

\* C17: a Tab press moves the focus from a pane of the ring to the pane
\* that follows it (from Raw to Editor) and changes nothing else; five Tab
\* presses lead from each of the five panes back to it.
C17_TabCycle ==
    /\ [][(Tab /\ focus \in Panes) =>
            /\ focus' = Ring[(RingPos(focus) % Len(Ring)) + 1]
            /\ <<hist, file, loaded, cfg, lastKey, keyRepeatCount, ticks, exports, listCount, listCur, editorText, clock,
                 status, crashed, fetches, queue, completed, appended, connStatus>>'
                 = <<hist, file, loaded, cfg, lastKey, keyRepeatCount, ticks, exports, listCount, listCur, editorText, clock,
                     status, crashed, fetches, queue, completed, appended, connStatus>>
            /\ resultVars' = resultVars]_vars
    /\ [](focus \in Panes =>
            NextPane(NextPane(NextPane(NextPane(NextPane(focus))))) = focus)

\* C17 witness: four Tab presses after startup: the focus is on Raw, the
\* last pane of the ring, from where the fifth press leads back to Editor.
C17_Witness ==
    /\ focus = "Raw"
    /\ clock = 0 /\ editorText = <<>> /\ hist = loaded

\* C18: the step that submits a query puts the focus on Results while the
\* query's fetch is still in flight, and the step that applies a response
\* (rows, another shape, or an error) leaves the focus where it is.
C18_FocusResultsOnSubmit ==
    [][/\ clock' = clock + 1 =>
             /\ focus' = "Results"
             /\ \E f \in fetches' : f.id = clock'
             /\ \A i \in 1..Len(completed') : completed'[i].id # clock'
       /\ (queue # <<>> /\ queue' = Tail(queue) /\ Head(queue).kind = "result") =>
             focus' = focus]_vars

\* C18 witness: a query was submitted from the editor and nothing has come
\* back: the focus is on Results.
C18_Witness ==
    /\ clock = 1 /\ fetches # {} /\ completed = <<>>
    /\ focus = "Results"

\* C19: activating the current item of the history list reads a history
\* entry that exists, puts that entry's query into the editor and moves the
\* focus to Editor, also after a save of the history has failed.
C19_HistoryActivationInRange ==
    [][ActivateHistoryItem =>
          /\ listCur < Len(hist)
          /\ editorText' = hist[listCur + 1].Query
          /\ focus' = "Editor"
          /\ ~crashed']_vars

\* C20: the focus is on Editor at startup and on one of Editor, History,
\* Results, Detail, Raw in every reachable state; a header activation in
\* Results sorts and leaves the focus where it is.
C20_FocusIsOneOfFive ==
    /\ focus = "Editor"
    /\ [](focus \in Panes)
    /\ [][ActivateCell => focus' = focus]_vars

\* What an export must leave alone: rows, columns, sort state, history, focus.
exportKeeps == <<currentData, currentColumns, sortColumn, sortAscending, hist, file, focus>>

\* C21 as stated: an export writes a file if and only if the result model
\* has at least one row; the file holds the model's rows in their current
\* order; rows, columns, sort state, history and focus stay as they are;
\* without rows a message is shown.
C21_ExportIffRows ==
    [][ExportResults =>
        /\ (exports' # exports) <=> (Len(currentData) > 0)
        /\ exports' # exports => exports' = Append(exports, currentData)
        /\ Len(currentData) = 0 => status' = "No results to export"
        /\ exportKeeps' = exportKeeps]_vars

\* C21 amended: an export writes a file only if the result model has at
\* least one row, and then it either writes one file holding the model's
\* rows in their current order or, when the file cannot be written, writes
\* nothing and reports the failure on the status line; without rows nothing
\* is written and a message is shown; rows, columns, sort state, history and
\* focus stay as they are.
C21_ExportAmended ==
    [][ExportResults =>
        /\ exports' # exports =>
              /\ Len(currentData) > 0
              /\ exports' = Append(exports, currentData)
              /\ status' = "Exported"
        /\ (Len(currentData) > 0 /\ exports' = exports) => status' = "Failed to export"
        /\ Len(currentData) = 0 => (exports' = exports /\ status' = "No results to export")
        /\ exportKeeps' = exportKeeps]_vars

\* C21 witness: the rows sent as 2, 1 were sorted by id and exported: the
\* file holds them in the sorted order 1, 2.
C21_Witness ==
    /\ endpointData = <<Row21, Row12>>
    /\ sortColumn = 0 /\ sortAscending
    /\ exports = <<(<<Row12, Row21>>)>>

\* C22: when the file holds what saveHistory wrote for the current history
\* (the last save succeeded and nothing changed since), the history
\* loadHistory returns at the next start has as many entries, with the same
\* queries in the same order.
C22_SaveLoadRoundTrip ==
    [][(Restart /\ file = FileJSON(hist)) =>
          /\ Len(hist') = Len(hist)
          /\ \A i \in 1..Len(hist) : hist'[i].Query = hist[i].Query]_vars

\* C22 witness: a session started from a file that was saved with two
\* queries holding a quote, a backslash, a newline and an angle bracket.
C22_Witness ==
    /\ file = FileJSON(hist) /\ hist = loaded
    /\ Len(hist) = 2
    /\ {hist[1].Query, hist[2].Query} = {<<"a", "\"", "b">>, <<"<", "\\", "\n", "b">>}
    /\ status = "help" /\ clock = 2

\* C23: a session whose history file is missing or does not parse starts
\* with zero entries and no load error (at the first start and at every
\* later one), and whenever the file changes afterwards it becomes what
\* saveHistory writes for the history in memory.
C23_MissingOrCorruptStartsEmpty ==
    /\ (file.kind \in {"missing", "corrupt"} =>
           /\ ~loadHistoryFails(file) /\ loadHistory(file) = <<>>
           /\ hist = <<>> /\ listCount = 0)
    /\ [][(Restart /\ file.kind \in {"missing", "corrupt"}) =>
             /\ ~loadHistoryFails(file) /\ loadHistory(file) = <<>>
             /\ hist' = <<>> /\ listCount' = 0 /\ ~crashed']_vars
    /\ [][file' # file => file' = FileJSON(hist')]_vars

\* C23 witness: a later start that found the file still unparsable, after a
\* session whose save failed.
C23_Witness ==
    /\ file = FileCorrupt /\ clock = 1
    /\ hist = <<>> /\ loaded = <<>> /\ listCount = 0
    /\ status = "help" /\ ~crashed

\* The ids of the result updates waiting in the queue, in order.
QueuedResultIds == SelectSeq([i \in 1..Len(queue) |-> queue[i]], LAMBDA u : u.kind = "result")

C25_DeleteRemovesExactlyOne ==
    /\ [][(clock' = clock /\ hist' # hist) =>
             /\ listCur \in 0..(Len(hist) - 1)
             /\ Len(hist') = Len(hist) - 1
             /\ \A j \in 1..Len(hist') :
                    hist'[j] = IF j <= listCur THEN hist[j] ELSE hist[j + 1]]_vars
    /\ [][(clock' = clock /\ listCur \notin 0..(Len(hist) - 1)) =>
             (hist' = hist /\ file' = file)]_vars

\* C25 witness: the middle one of three loaded entries has been deleted.
C25_Witness ==
    /\ loaded = Alternating(3) /\ clock = 0
    /\ hist = <<loaded[1], loaded[3]>>
    /\ status = "History entry deleted" /\ listCur = 1

\* C26: in every run, with q the editor's text without its leading and
\* trailing whitespace: the fetch carries the editor's text itself; when q
\* is empty the history stays as it is; when q is the query of the newest
\* entry only that entry's timestamp changes; otherwise the new entry holds
\* q and the former entries follow it.
C26_StoredTrimmedSentVerbatim ==
    [][clock' # clock =>
         \E i \in 1..(Len(editorText) + 1), j \in 0..Len(editorText) :
            LET q == SubSeq(editorText, i, j) IN
            /\ \A k \in 1..Len(editorText) :
                   (k < i \/ k > j) => editorText[k] \in {" ", "\t", "\n"}
            /\ q # <<>> => (q[1] \notin {" ", "\t", "\n"} /\ q[Len(q)] \notin {" ", "\t", "\n"})
            /\ [id |-> clock', query |-> editorText] \in fetches'
            /\ \A f \in fetches' \ fetches : f.query = editorText
            /\ IF q = <<>> THEN hist' = hist
               ELSE IF hist # <<>> /\ hist[1].Query = q
               THEN /\ Len(hist') = Len(hist)
                    /\ \A k \in 1..Len(hist) : hist'[k].Query = hist[k].Query
                    /\ \A k \in 2..Len(hist) : hist'[k] = hist[k]
               ELSE /\ hist'[1].Query = q
                    /\ Len(hist') = Min(Len(hist) + 1, MaxHistoryEntries)
                    /\ \A k \in 2..Len(hist') : hist'[k] = hist[k - 1]]_vars

\* C26 witness: a session that started without history ran a
\* whitespace-only text and then a text with whitespace on both sides; both
\* fetches are in flight with the editor's texts, and the history holds the
\* second one trimmed and nothing else.
C26_Witness ==
    /\ loaded = <<>> /\ clock = 2
    /\ [id |-> 1, query |-> <<" ", "\t">>] \in fetches
    /\ [id |-> 2, query |-> <<"\n", "b", ">", " ">>] \in fetches
    /\ hist = <<HistoryEntry(<<"b", ">">>, 2)>>

C28_SelectionResetsToFirstRow ==
    [][((\/ /\ queue # <<>> /\ queue' = Tail(queue) /\ Head(queue).kind = "result"
            /\ ~Head(queue).res.err /\ Len(currentData') > 0
         \/ /\ clock' = clock
            /\ <<sortColumn', sortAscending'>> # <<sortColumn, sortAscending>>)
        /\ ~crashed') =>
            /\ selRow' = 1 /\ selCol' = 0
            /\ detail'.kind = "row" /\ detail'.row = 1
            /\ detail'.total = Len(currentData')
            /\ {detail'.lines[i][1] : i \in 1..Len(detail'.lines)} = DOMAIN currentData'[1]
            /\ \A i \in 1..Len(detail'.lines) :
                   detail'.lines[i][2] =
                      Truncate200(Sprint(currentData'[1][detail'.lines[i][1]]))]_vars

\* C28 witness: rows installed as 9, 10, no id; the third row was selected,
\* then the id header activated twice: descending, the row without id is
\* first, selected and shown in the detail view.
C28_Witness ==
    /\ endpointData = <<RowId9, RowId10, RowNoId>>
    /\ sortColumn = 0 /\ ~sortAscending
    /\ currentData[1] = RowNoId
    /\ selRow = 1 /\ selCol = 0
    /\ detail.kind = "row" /\ detail.row = 1
    /\ detail.lines = <<(<<"name", <<"d">> >>)>>

\* C29: after the update of a successful response the current rows are the
\* rows of that response alone, whatever the rows were before: the object
\* elements of a JSON array in their order, and none for a body that is not
\* JSON, is not an array, or is an array without objects.
C29_RowsReplacedByResponse ==
    [][(queue # <<>> /\ queue' = Tail(queue) /\ Head(queue).kind = "result"
        /\ ~Head(queue).res.err) =>
            LET body == Head(queue).res.raw
            IN  currentData' = IF body.json = "array" THEN ObjectRows(body.items) ELSE <<>>]_vars

\* The rows the selection can be brought to from a row by presses of Up,
\* Down, Page Up and Page Down, single or repeated, in a table of rowCount
\* rows.
KeySteps == {1, cfg.ScrollAcceleration, cfg.PageScrollStep}
RECURSIVE RowsWithinReach(_, _)
RowsWithinReach(rows, rowCount) ==
    LET next == rows \cup {UpRow(r, s) : r \in rows, s \in KeySteps}
                     \cup {DownRow(r, s, rowCount) : r \in rows, s \in KeySteps}
    IN  IF next = rows THEN rows ELSE RowsWithinReach(next, rowCount)

\* C30: while the results table has the focus and a data row is selected,
\* the header row is within reach of the arrow keys (so that Enter there
\* sorts by the selected column).
C30_ArrowsReachHeader ==
    (~crashed /\ focus = "Results" /\ Len(currentData) > 0 /\ selRow >= 1) =>
        0 \in RowsWithinReach({selRow}, RowCount(table))

\* The update of the run with the given id has been applied: its fetch
\* returned and its update is no longer in the queue.
Applied(id) ==
    \E i \in 1..(Len(completed) - Len(QueuedResultIds)) : completed[i].id = id

\* C31: every run so far is in flight or has returned, never both and never
\* twice, and the updates of the runs that returned and are not yet applied
\* wait in the queue in the order of return (so each is applied once); with
\* the event loop running, the update of a run whose fetch returns is
\* applied in the end, whether or not the fetches of the other runs ever
\* return; and while fetches are in flight the loop still takes keys and
\* applies the updates that are queued.
C31_EveryResponseAppliedOnce ==
    /\ [](/\ \A id \in 1..clock :
                Cardinality({f \in fetches : f.id = id})
                  + Cardinality({i \in 1..Len(completed) : completed[i].id = id}) = 1
          /\ \A i \in 1..Len(QueuedResultIds) :
                QueuedResultIds[i].id
                  = completed[Len(completed) - Len(QueuedResultIds) + i].id)
    /\ \A id \in 1..MaxLiveRuns :
          WF_vars(ReturnOf(id)) => [](id <= clock => <>Applied(id))
    /\ [](~crashed => (ENABLED ClickPane("History") \/ ENABLED ClickPane("Editor")))
    /\ []((~crashed /\ queue # <<>>) => ENABLED ApplyUpdate)

\* C31 witness: the second query was submitted while the first was in
\* flight; the second returned and was applied, then the first.
C31_Witness ==
    /\ clock = 2 /\ fetches = {} /\ queue = <<>>
    /\ Len(completed) = 2 /\ completed[1].id = 2 /\ completed[2].id = 1
    /\ Applied(1) /\ Applied(2)

\* C32: a sort (a step of the header handler, which changes the sort column
\* or direction without a new run) leaves the column sequence as it was, so
\* that sortColumn names the same column after it, and leaves the history,
\* its file, the focus and the set of rows as they were.
C32_SortKeepsColumns ==
    [][(clock' = clock /\ <<sortColumn', sortAscending'>> # <<sortColumn, sortAscending>>) =>
          /\ currentColumns' = currentColumns
          /\ Len(currentData') = Len(currentData)
          /\ {currentData'[i] : i \in 1..Len(currentData')}
                = {currentData[i] : i \in 1..Len(currentData)}
          /\ UNCHANGED <<hist, file, focus, endpointData>>]_vars

\* C33: whenever no fetch is in flight and no response waits to be applied,
\* the table shows the current rows: as many data rows as the model holds,
\* with the cells that rendering the model's rows in their order gives.
C33_TableShowsModelRows ==
    (~crashed /\ fetches = {} /\ QueuedResultIds = <<>>) =>
        /\ Len(table.cells) = Len(currentData)
        /\ table.cells = renderJSONToTable(currentData, cfg.MaxColumnWidth).cells

C35_KeysSelectDataRow ==
    [][(\/ KeyPgDn
        \/ KeyPgUp
        \/ \E key \in {"Up", "Down"}, quick \in BOOLEAN : KeyArrow(key, quick)) =>
            (1 <= selRow' /\ selRow' <= RowCount(table') - 1)]_vars

\* C36: a fetch starts only in a step of Enter with the focus on the editor,
\* and every such step starts exactly one fetch, which carries the editor's
\* text, keeps the fetches in flight, empties the table and moves the focus
\* to the results; when the text is empty or holds whitespace only the
\* history entries stay as they are.
C36_EnterInEditorDispatchesOneFetch ==
    [][/\ (fetches' \ fetches # {} \/ clock' # clock) => (focus = "Editor" /\ EnterInEditor)
       /\ EnterInEditor =>
            /\ fetches \subseteq fetches'
            /\ fetches' \ fetches = {[id |-> clock + 1, query |-> editorText]}
            /\ table' = EmptyTable /\ currentRowCount' = 0
            /\ focus' = "Results"
            /\ (\A k \in 1..Len(editorText) : editorText[k] \in {" ", "\t", "\n"}) =>
                   hist' = hist]_vars

\* C36 witness: the rows of the first query ("a") were shown, then the
\* editor's text was replaced by whitespace and submitted: its fetch is in
\* flight with that text, the table is empty, the focus is on the results
\* and the history still holds the first query only.
C36_Witness ==
    /\ clock = 2
    /\ fetches = {[id |-> 2, query |-> <<" ", "\t">>]}
    /\ Len(completed) = 1 /\ currentData = <<Row9>>
    /\ table = EmptyTable /\ focus = "Results"
    /\ hist = <<HistoryEntry(<<"a">>, 1)>>

====
